---- MODULE Spec2Model ----
(***************************************************************************)
(* A model of the Vertexa 3D model viewer (rishifranklin/vertexa):         *)
(*   - app/file_loaders.py   extension dispatch and the scene-import       *)
(*                           fallback chain,                               *)
(*   - app/scene_manager.py  the actor list, the selection and the hidden  *)
(*                           set,                                          *)
(*   - app/vtk_viewport.py   load_file, the mouse handlers, picking and    *)
(*                           the context menu,                             *)
(*   - app/texture_editor.py the material editor's _apply,                 *)
(*   - app/main_window.py,   closeEvent and _restore_settings over the     *)
(*     app/settings.py       stored settings.                              *)
(* Third-party libraries (VTK readers and importers, pycollada, assimp-py, *)
(* pyassimp, Qt dialogs) are the environment: each call into them is a     *)
(* nondeterministic choice over the outcomes the code distinguishes.       *)
(***************************************************************************)
EXTENDS Integers, Sequences, FiniteSets, TLC

VARIABLES
    \* ---- one call of load_model_into_renderer (file_loaders.py) ----
    imp_pc,          \* "idle" | "call" | "done"
    imp_file,        \* the file_path argument, a sequence of characters
    imp_env,         \* what the third-party loaders will do in this call
    imp_result,      \* what the call returned or raised, and the calls it made
    \* ---- SceneManager (scene_manager.py) ----
    _actors,         \* list[vtkActor]
    _selected,       \* Optional[SelectedState]
    _hidden,         \* set[vtkActor]
    vtk,             \* the vtk objects: actor id -> visibility, edge, material
    next_id,         \* the next vtkActor ever to be created
    \* ---- VTKViewport (vtk_viewport.py) ----
    _clear_on_load,
    held,            \* the mouse buttons that are down (Qt's side of the events)
    hist,            \* history: the latest left/right press and what followed it
    _press_button,
    _press_pos,
    _press_moved,
    last,            \* what the most recent handler did (signals, dialogs, calls)
    \* ---- TextureEditorDialog (texture_editor.py) ----
    _texture_editor, \* MainWindow._texture_editor is not None
    _params,         \* PrincipledParams
    _status,         \* the dialog's status label
    \* ---- texture_utils.py ----
    _texture_cache,  \* the paths whose texture is cached
    \* ---- MainWindow (main_window.py), AppSettings (settings.py) ----
    settings,        \* the QSettings store: key -> stored text, or "unset"
    _act_clear_on_load,   \* isChecked() of the 'Clear previous on load' action
    _act_three_point,     \* isChecked() of the 'Enable 3 Point Lighting' action
    _three_point_enabled, \* SceneManager._three_point_enabled
    window,          \* "open" | "closed"
    log,             \* what the latest closeEvent gave the logger
    at_close         \* history: the flags in effect at the latest closeEvent

vars == << imp_pc, imp_file, imp_env, imp_result,
           _actors, _selected, _hidden, vtk, next_id,
           _clear_on_load, held, hist, _press_button, _press_pos, _press_moved, last,
           _texture_editor, _params, _status, _texture_cache,
           settings, _act_clear_on_load, _act_three_point, _three_point_enabled,
           window, log, at_close >>

impVars == << imp_pc, imp_file, imp_env, imp_result >>
sceneVars == << _actors, _selected, _hidden, vtk, next_id >>
pressVars == << _press_button, _press_pos, _press_moved >>
mouseVars == << held, hist, _press_button, _press_pos, _press_moved >>
editorVars == << _texture_editor, _params, _status, _texture_cache >>
lightVars == << _act_three_point, _three_point_enabled >>
closeVars == << settings, window, log, at_close >>
winVars == << _act_clear_on_load, lightVars, closeVars >>

-----------------------------------------------------------------------------
(* Bounds of the model.                                                    *)

\* the most actors one scene import yields
MaxNew == 2
\* the number of vtkActor objects ever created in one run
MaxActorId == 3
\* widget coordinates run over 0..MaxCoord in x and in y
MaxCoord == 3

-----------------------------------------------------------------------------
(* Characters and file names.  A path is a sequence of one-character       *)
(* strings, so that suffix extraction and lower-casing are computed.       *)

LowerLetters == << "a", "b", "d", "e", "f", "g", "j", "l", "m", "o", "p", "s", "t", "v", "x", "y" >>
UpperLetters == << "A", "B", "D", "E", "F", "G", "J", "L", "M", "O", "P", "S", "T", "V", "X", "Y" >>

\* str.lower() on one character
lower_char(c) ==
    IF \E i \in 1..Len(UpperLetters) : UpperLetters[i] = c
    THEN LowerLetters[CHOOSE i \in 1..Len(UpperLetters) : UpperLetters[i] = c]
    ELSE c

upper_char(c) ==
    IF \E i \in 1..Len(LowerLetters) : LowerLetters[i] = c
    THEN UpperLetters[CHOOSE i \in 1..Len(LowerLetters) : LowerLetters[i] = c]
    ELSE c

\* str.lower()
lower(s) == [i \in 1..Len(s) |-> lower_char(s[i])]

\* str.rfind(c), 1-based, 0 when c does not occur
rfind(s, c) ==
    IF \E i \in 1..Len(s) : s[i] = c
    THEN CHOOSE i \in 1..Len(s) : s[i] = c /\ \A j \in (i+1)..Len(s) : s[j] # c
    ELSE 0

\* pathlib: Path(p).name, the last component of the path
path_name(p) == SubSeq(p, rfind(p, "/") + 1, Len(p))

\* pathlib: Path(p).suffix: the last dot of the name and what follows it, unless
\* that dot is the name's first or last character
path_suffix(p) ==
    LET name == path_name(p)
        i == rfind(name, ".")
    IN  IF 1 < i /\ i < Len(name) THEN SubSeq(name, i, Len(name)) ELSE << >>

-----------------------------------------------------------------------------
(* load_model_into_renderer and _import_scene (file_loaders.py).           *)

\* the outcomes of the third-party calls of one load
ReaderOutcomes == {"ok", "raise"}
NativeOutcomes == {"unavailable", "actors", "none", "raise"}
AltOutcomes == {"actors", "raise"}
GenericOutcomes == {"unavailable", "actors", "empty", "assimp_error", "raise"}

Envs ==
    [ reader : ReaderOutcomes, native : NativeOutcomes, alt : AltOutcomes,
      generic : GenericOutcomes, n : 1..MaxNew ]

NoResult ==
    [ kind |-> "none", exc |-> "", error |-> "", actors |-> 0, warnings |-> << >>,
      loader |-> "", attempts |-> << >>, rw_touched |-> FALSE ]

\* LoadResult(actors=..., warnings=...); actors is the number of new vtkActors
LoadResult(n, warnings, loader, attempts, touched) ==
    [ kind |-> "return", exc |-> "", error |-> "", actors |-> n, warnings |-> warnings,
      loader |-> loader, attempts |-> attempts, rw_touched |-> touched ]

Raise(exc, error, loader, attempts, touched) ==
    [ kind |-> "raise", exc |-> exc, error |-> error, actors |-> 0, warnings |-> << >>,
      loader |-> loader, attempts |-> attempts, rw_touched |-> touched ]

_read_polydata(reader_factory, env) ==
    IF env.reader = "ok"
    THEN LoadResult(1, << >>, reader_factory, << << "reader", reader_factory, "ok" >> >>, FALSE)
    ELSE Raise("RuntimeError", "reader failed", reader_factory,
               << << "reader", reader_factory, "raise" >> >>, FALSE)

load_step_ocp(env) ==
    IF env.reader = "ok"
    THEN LoadResult(1, << >>, "load_step_ocp", << << "reader", "load_step_ocp", "ok" >> >>, FALSE)
    ELSE Raise("RuntimeError", "failed to read step file", "load_step_ocp",
               << << "reader", "load_step_ocp", "raise" >> >>, FALSE)

NativeImporter(importer_type) ==
    CASE importer_type = "gltf" -> "vtkGLTFImporter"
      [] importer_type = "collada" -> "vtkCOLLADAImporter"
      [] importer_type = "fbx" -> "vtkFBXImporter"

\* a chain that asks the format's fallback loader before the native importer
_import_scene_fallback_first(importer_type, env) ==
    LET native == NativeImporter(importer_type)
        loader == "_import_scene:" \o importer_type
        att_native == << "native", native, env.native >>
        att_alt == << "alt", IF importer_type = "collada" THEN "load_dae_pycollada"
                             ELSE "load_fbx_assimp_py", env.alt >>
    IN  IF importer_type \in {"collada", "fbx"} /\ env.alt = "actors"
        THEN LoadResult(env.n, << >>, loader, << att_alt >>, TRUE)
        ELSE IF env.native = "actors"
        THEN LoadResult(env.n, << >>, loader,
                        IF importer_type = "gltf" THEN << att_native >>
                        ELSE << att_alt, att_native >>, TRUE)
        ELSE Raise("RuntimeError", "no suitable importer available for this file format",
                   loader, IF importer_type = "gltf" THEN << att_native >>
                           ELSE << att_alt, att_native >>, TRUE)

\* a chain in which every format falls through to pyassimp when its own loaders
\* gave no actors
_import_scene_fall_through(importer_type, env) ==
    LET native == NativeImporter(importer_type)
        loader == "_import_scene:" \o importer_type
        att_native == << "native", native, env.native >>
        att_alt == << "alt", IF importer_type = "collada" THEN "load_dae_pycollada"
                             ELSE "load_fbx_assimp_py", env.alt >>
        att_gen == << "generic", "pyassimp", env.generic >>
        tried == IF importer_type = "gltf" THEN << att_native >> ELSE << att_native, att_alt >>
    IN  IF env.native = "raise"
        THEN Raise("RuntimeError", "importer failed", loader, << att_native >>, TRUE)
        ELSE IF env.native = "actors"
        THEN LoadResult(env.n, << >>, loader, << att_native >>, TRUE)
        ELSE IF importer_type # "gltf" /\ env.alt = "actors"
        THEN LoadResult(env.n, << >>, loader, tried, TRUE)
        ELSE IF env.generic = "actors"
        THEN LoadResult(env.n, << >>, loader, Append(tried, att_gen), TRUE)
        ELSE Raise("RuntimeError", "no suitable importer available for this file format",
                   loader, Append(tried, att_gen), TRUE)

_import_scene(importer_type, env) ==
    LET native == NativeImporter(importer_type)
        loader == "_import_scene:" \o importer_type
        unavailable == << native \o " not available in this vtk build" >>
        att_native == << << "native", native, env.native >> >>
        att_dae == << "alt", "load_dae_pycollada", env.alt >>
        att_fbx == << "alt", "load_fbx_assimp_py", env.alt >>
        att_gen == << "generic", "pyassimp", env.generic >>
        no_new == << "import finished but no new actors were detected" >>
    IN
    IF env.native # "unavailable"
    THEN \* importer is not None: importer.Update()
         IF env.native = "raise"
         THEN Raise("RuntimeError", "importer failed", loader, att_native, TRUE)
         ELSE IF env.native = "actors"
         THEN LoadResult(env.n, << >>, loader, att_native, TRUE)
         ELSE IF importer_type = "collada"
         THEN IF env.alt = "actors"
              THEN LoadResult(env.n, no_new \o << "loaded using pycollada fallback" >>,
                              loader, Append(att_native, att_dae), TRUE)
              ELSE LoadResult(0, no_new \o << "pycollada fallback failed" >>,
                              loader, Append(att_native, att_dae), TRUE)
         ELSE LoadResult(0, no_new, loader, att_native, TRUE)
    ELSE IF importer_type = "collada"
    THEN IF env.alt = "actors"
         THEN LoadResult(env.n, unavailable \o << "loaded using pycollada fallback" >>,
                         loader, Append(att_native, att_dae), TRUE)
         ELSE Raise("RuntimeError", "failed to load dae", loader,
                    Append(att_native, att_dae), TRUE)
    ELSE IF importer_type = "fbx"
    THEN IF env.alt = "actors"
         THEN LoadResult(env.n, unavailable \o << "loaded using assimp-py fallback" >>,
                         loader, Append(att_native, att_fbx), TRUE)
         ELSE Raise("RuntimeError", "failed to load fbx", loader,
                    Append(att_native, att_fbx), TRUE)
    ELSE \* the optional pyassimp fallback
         IF env.generic = "actors"
         THEN LoadResult(env.n, unavailable \o << "loaded using assimp fallback" >>,
                         loader, Append(att_native, att_gen), TRUE)
         ELSE IF env.generic = "empty"
         THEN LoadResult(0, unavailable \o << "loaded using assimp fallback" >>,
                         loader, Append(att_native, att_gen), TRUE)
         ELSE Raise("RuntimeError", "no suitable importer available for this file format",
                    loader, Append(att_native, att_gen), TRUE)

\* the extension compared as it is spelled
file_ext_case_sensitive(file_path) ==
    LET ext == path_suffix(file_path)
    IN  IF Len(ext) > 0 /\ ext[1] = "." THEN Tail(ext) ELSE ext

\* ext = Path(file_path).suffix.lower(), without its leading dot
file_ext(file_path) ==
    LET ext == lower(path_suffix(file_path))
    IN  IF Len(ext) > 0 /\ ext[1] = "." THEN Tail(ext) ELSE ext

load_model_into_renderer(file_path, env) ==
    LET ext == file_ext(file_path)
    IN  CASE ext = << "s", "t", "l" >> -> _read_polydata("vtkSTLReader", env)
          [] ext = << "o", "b", "j" >> -> _read_polydata("vtkOBJReader", env)
          [] ext = << "p", "l", "y" >> -> _read_polydata("vtkPLYReader", env)
          [] ext = << "v", "t", "p" >> -> _read_polydata("vtkXMLPolyDataReader", env)
          [] ext \in { << "s", "t", "p" >>, << "s", "t", "e", "p" >> } -> load_step_ocp(env)
          [] ext \in { << "g", "l", "t", "f" >>, << "g", "l", "b" >> } -> _import_scene("gltf", env)
          [] ext = << "d", "a", "e" >> -> _import_scene("collada", env)
          [] ext = << "f", "b", "x" >> -> _import_scene("fbx", env)
          [] OTHER -> Raise("ValueError", "unsupported file extension", "", << >>, FALSE)

-----------------------------------------------------------------------------
(* The inputs of a load: file names and third-party outcomes.              *)

SupportedExts ==
    { << "s", "t", "l" >>, << "o", "b", "j" >>, << "p", "l", "y" >>, << "v", "t", "p" >>,
      << "s", "t", "p" >>, << "s", "t", "e", "p" >>, << "g", "l", "t", "f" >>,
      << "g", "l", "b" >>, << "d", "a", "e" >>, << "f", "b", "x" >> }

OtherExts ==
    { << "t", "x", "t" >>, << "s", "t" >>, << "t", "l" >>, << "s", "t", "l", "x" >>,
      << "s", "t", "e", "p", "s" >> }

\* every upper/lower-case spelling of ext
CaseVariants(ext) ==
    { [i \in 1..Len(ext) |-> IF i \in S THEN upper_char(ext[i]) ELSE ext[i]] :
        S \in SUBSET (1..Len(ext)) }

\* what precedes the last dot: nothing (".stl"), a plain stem, a stem with a dot of
\* its own ("a.obj.stl"), a directory with a dot in its name, a directory alone
Stems ==
    { << >>, << "m" >>, << "a", ".", "o", "b", "j" >>,
      << "d", ".", "s", "t", "l", "/", "m" >>, << "d", "/" >> }

\* names without a usable dot: no dot at all, a trailing dot, a dot in the directory only
DotlessNames ==
    { << "m" >>, << "s", "t", "l" >>, << "m", "." >>, << "s", "t", "l", "." >>,
      << "d", ".", "s", "t", "l", "/", "m" >> }

Files ==
    { stem \o << "." >> \o v :
        stem \in Stems,
        v \in UNION { CaseVariants(ext) : ext \in SupportedExts \cup OtherExts } }
    \cup DotlessNames

\* the files offered to the viewport's load_file
GuiFiles ==
    { << "m", ".", "s", "t", "l" >>, << "a", "/", "m", ".", "D", "a", "e" >>,
      << "m", ".", "t", "x", "t" >>, << "m" >> }

DefaultEnv ==
    [ reader |-> "ok", native |-> "unavailable", alt |-> "raise",
      generic |-> "unavailable", n |-> 1 ]

\* the outcomes that can matter for this file: the fields its loader never reads
\* stay at their defaults
EnvsFor(file_path) ==
    LET ext == lower(path_suffix(file_path))
        same(e, fields) == \A f \in fields : e[f] = DefaultEnv[f]
    IN  CASE ext \in { << ".", "g", "l", "t", "f" >>, << ".", "g", "l", "b" >> } ->
               { e \in Envs : same(e, {"reader", "alt"}) }
          [] ext \in { << ".", "d", "a", "e" >>, << ".", "f", "b", "x" >> } ->
               { e \in Envs : same(e, {"reader", "generic"}) }
          [] ext \in { << "." >> \o x : x \in SupportedExts } ->
               { e \in Envs : same(e, {"native", "alt", "generic", "n"}) }
          [] OTHER -> { DefaultEnv }

-----------------------------------------------------------------------------
(* SceneManager (scene_manager.py).  The methods are operators on the      *)
(* record s of the manager's fields and the vtk objects they reach.        *)

NoActor == 0
ActorIds == 1..MaxActorId

\* a vtkActor with its vtkProperty, as far as the viewer reads or writes it
LoaderMaterial == [ base_color |-> "white", metallic |-> 0 ]

NewActor(edge_visibility) ==
    [ InRenderer |-> FALSE, Visibility |-> 1,
      EdgeVisibility |-> edge_visibility, EdgeColor |-> "black", LineWidth |-> 1,
      Material |-> LoaderMaterial, Texture |-> "" ]

NoSelection ==
    [ actor |-> NoActor, original_edge_visibility |-> 0,
      original_edge_color |-> "black", original_line_width |-> 1 ]

Scene == [ actors |-> _actors, selected |-> _selected, hidden |-> _hidden, vtk |-> vtk ]

clear_selection(s) ==
    IF s.selected.actor = NoActor
    THEN s
    ELSE LET a == s.selected.actor
         IN  [ s EXCEPT !.vtk[a].EdgeVisibility = s.selected.original_edge_visibility,
                        !.vtk[a].EdgeColor = s.selected.original_edge_color,
                        !.vtk[a].LineWidth = s.selected.original_line_width,
                        !.selected = NoSelection ]

selected_actor(s) == s.selected.actor

select_actor(s, actor) ==
    IF actor = NoActor
    THEN clear_selection(s)
    ELSE IF s.selected.actor = actor
    THEN s
    ELSE LET c == clear_selection(s)
         IN  [ c EXCEPT !.selected =
                            [ actor |-> actor,
                              original_edge_visibility |-> c.vtk[actor].EdgeVisibility,
                              original_edge_color |-> c.vtk[actor].EdgeColor,
                              original_line_width |-> c.vtk[actor].LineWidth ],
                        !.vtk[actor].EdgeVisibility = 1,
                        !.vtk[actor].LineWidth = 2,
                        !.vtk[actor].EdgeColor = "yellow" ]

add_actors(s, actors) ==
    LET present(a) == a # NoActor
        added == SelectSeq(actors, present)
    IN  [ s EXCEPT !.actors = s.actors \o added,
                   !.vtk = [ a \in DOMAIN s.vtk |->
                               IF \E i \in 1..Len(added) : added[i] = a
                               THEN [ s.vtk[a] EXCEPT !.InRenderer = TRUE ]
                               ELSE s.vtk[a] ] ]

\* list.remove(x): drops the first occurrence of x
list_remove(seq, x) ==
    LET i == CHOOSE k \in 1..Len(seq) : seq[k] = x /\ \A j \in 1..(k-1) : seq[j] # x
    IN  SubSeq(seq, 1, i - 1) \o SubSeq(seq, i + 1, Len(seq))

remove_actor(s, actor) ==
    LET s1 == IF \E i \in 1..Len(s.actors) : s.actors[i] = actor
              THEN [ s EXCEPT !.vtk[actor].InRenderer = FALSE,
                              !.actors = list_remove(s.actors, actor) ]
              ELSE s
        s2 == [ s1 EXCEPT !.hidden = s1.hidden \ {actor} ]
    IN  IF s2.selected.actor # NoActor /\ s2.selected.actor = actor
        THEN clear_selection(s2)
        ELSE s2

\* clear_all without self._actors.clear()
clear_all_keeps_actors(s) ==
    LET c == clear_selection(s)
    IN  [ c EXCEPT !.hidden = {} ]

clear_all(s) ==
    LET c == clear_selection(s)
    IN  [ c EXCEPT !.vtk = [ a \in DOMAIN c.vtk |->
                               IF \E i \in 1..Len(c.actors) : c.actors[i] = a
                               THEN [ c.vtk[a] EXCEPT !.InRenderer = FALSE ]
                               ELSE c.vtk[a] ],
                   !.actors = << >>,
                   !.hidden = {} ]

\* hide_selected without the closing clear_selection()
hide_selected_keeps_selection(s) ==
    LET a == selected_actor(s)
    IN  IF a = NoActor
        THEN [ scene |-> s, ret |-> FALSE ]
        ELSE [ scene |-> [ s EXCEPT !.vtk[a].Visibility = 0, !.hidden = s.hidden \cup {a} ],
               ret |-> TRUE ]

\* returns the scene and the method's return value
hide_selected(s) ==
    LET a == selected_actor(s)
    IN  IF a = NoActor
        THEN [ scene |-> s, ret |-> FALSE ]
        ELSE [ scene |-> clear_selection([ s EXCEPT !.vtk[a].Visibility = 0,
                                                    !.hidden = s.hidden \cup {a} ]),
               ret |-> TRUE ]

\* reveal_all_hidden with n = len(self._hidden) taken after the clear()
reveal_all_hidden_counts_late(s) ==
    [ scene |-> [ s EXCEPT !.vtk = [ a \in DOMAIN s.vtk |->
                                       IF a \in s.hidden
                                       THEN [ s.vtk[a] EXCEPT !.Visibility = 1 ]
                                       ELSE s.vtk[a] ],
                           !.hidden = {} ],
      ret |-> 0 ]

reveal_all_hidden(s) ==
    IF s.hidden = {}
    THEN [ scene |-> s, ret |-> 0 ]
    ELSE [ scene |-> [ s EXCEPT !.vtk = [ a \in DOMAIN s.vtk |->
                                            IF a \in s.hidden
                                            THEN [ s.vtk[a] EXCEPT !.Visibility = 1 ]
                                            ELSE s.vtk[a] ],
                                !.hidden = {} ],
           ret |-> Cardinality(s.hidden) ]

hidden_count(s) == Cardinality(s.hidden)

\* Python drops an actor that neither the scene nor the renderer references any
\* more: its record returns to that of an object not yet created.
unreferenced(s) ==
    [ s EXCEPT !.vtk = [ a \in DOMAIN s.vtk |->
                           IF \E i \in 1..Len(s.actors) : s.actors[i] = a
                           THEN s.vtk[a]
                           ELSE NewActor(0) ] ]

SetScene(s) ==
    /\ _actors' = s.actors
    /\ _selected' = s.selected
    /\ _hidden' = s.hidden
    /\ vtk' = s.vtk

-----------------------------------------------------------------------------
(* What a handler did: the signals it emitted, the dialogs it showed, the  *)
(* events it forwarded to the superclass (the VTK interactor), in order.   *)

NoMenu == [ shown |-> FALSE, hide |-> FALSE, reveal |-> FALSE, assign |-> FALSE, chosen |-> "none" ]

NoLast ==
    [ handler |-> "", button |-> "", status |-> << >>, dialogs |-> << >>,
      forwarded |-> << >>, calls |-> << >>, escaped |-> FALSE, error |-> "",
      loaded |-> << >>, picked |-> NoActor, menu |-> NoMenu,
      ret_bool |-> FALSE, ret_int |-> 0 ]

Did(handler) == [ NoLast EXCEPT !.handler = handler ]

-----------------------------------------------------------------------------
(* TextureEditorDialog.refresh_from_selection and set_status               *)
(* (texture_editor.py); MainWindow._on_selection_changed (main_window.py). *)

StatusInitial == << "Select an object in the viewport (right click), then edit material." >>
StatusNoSelection == << "No selection. left click an object in the viewport to select." >>
StatusEditing(a) == << "Editing selection: ", ToString(a) >>

\* the status label after refresh_from_selection; no actor is written
refresh_from_selection(s) ==
    LET a == selected_actor(s)
    IN  IF a = NoActor THEN StatusNoSelection ELSE StatusEditing(a)

\* selection_changed is connected to _on_selection_changed
_on_selection_changed(s) ==
    IF _texture_editor THEN refresh_from_selection(s) ELSE _status

-----------------------------------------------------------------------------
(* VTKViewport (vtk_viewport.py).                                          *)

\* 'except RuntimeError' in the place of 'except Exception'
except_RuntimeError(exc) == exc = "RuntimeError"

\* the exception types that 'except Exception' catches
except_Exception(exc) == exc \in {"ValueError", "RuntimeError"}

fit_to_view(s) == IF Len(s.actors) > 0 THEN << << "Fit to view" >> >> ELSE << >>

\* load_file(file_path); env is what the loaders do, edge the edge visibility the
\* loader gives its actors
load_file(file_path, env, edge) ==
    LET s0 == IF _clear_on_load THEN clear_all(Scene) ELSE Scene
        result == load_model_into_renderer(file_path, env)
        new == [ i \in 1..result.actors |-> next_id + i - 1 ]
        created == [ s0 EXCEPT !.vtk = [ a \in DOMAIN s0.vtk |->
                                           IF a >= next_id /\ a < next_id + result.actors
                                           THEN NewActor(edge)
                                           ELSE s0.vtk[a] ] ]
        s1 == add_actors(created, new)
        warnings == [ i \in 1..Len(result.warnings) |-> << "warning: ", result.warnings[i] >> ]
    IN  /\ next_id + result.actors - 1 <= MaxActorId
        /\ IF result.kind = "return"
           THEN /\ SetScene(unreferenced(s1))
                /\ next_id' = next_id + result.actors
                /\ last' = [ Did("load_file") EXCEPT
                               !.loaded = new,
                               !.status = fit_to_view(s1) \o warnings
                                          \o << << "loaded: ", path_name(file_path) >> >> ]
           ELSE /\ SetScene(unreferenced(s0))
                /\ next_id' = next_id
                /\ IF except_Exception(result.exc)
                   THEN last' = [ Did("load_file") EXCEPT
                                    !.error = result.error,
                                    !.dialogs = << << "load error", result.error >> >>,
                                    !.status = << << "load failed" >> >> ]
                   ELSE last' = [ Did("load_file") EXCEPT
                                    !.error = result.error,
                                    !.escaped = TRUE ]
        /\ UNCHANGED << impVars, winVars, _clear_on_load, mouseVars, editorVars >>

set_clear_on_load(enabled) ==
    /\ _clear_on_load' = enabled
    /\ last' = Did("set_clear_on_load")
    /\ UNCHANGED << impVars, lightVars, closeVars, sceneVars, mouseVars, editorVars >>

clear_viewport ==
    /\ SetScene(unreferenced(clear_all(Scene)))
    /\ last' = [ Did("clear_viewport") EXCEPT !.status = << << "viewport cleared" >> >> ]
    /\ UNCHANGED << impVars, winVars, next_id, _clear_on_load, mouseVars, editorVars >>

remove_selected ==
    LET a == selected_actor(Scene)
    IN  /\ IF a = NoActor
           THEN /\ last' = [ Did("remove_selected") EXCEPT !.status = << << "no selection" >> >> ]
                /\ UNCHANGED << _actors, _selected, _hidden, vtk >>
           ELSE /\ SetScene(unreferenced(remove_actor(Scene, a)))
                /\ last' = [ Did("remove_selected") EXCEPT
                               !.status = << << "removed selected object" >> >> ]
        /\ UNCHANGED << impVars, winVars, next_id, _clear_on_load, mouseVars, editorVars >>

-----------------------------------------------------------------------------
(* Mouse handling, picking and the context menu (vtk_viewport.py).         *)

Buttons == {"Left", "Right", "Middle"}
NoButton == "None"
Positions == (0..MaxCoord) \X (0..MaxCoord)
NoPos == << -1, -1 >>

\* the click/drag threshold of mouseMoveEvent, in pixels
ClickThreshold == 4

abs(x) == IF x < 0 THEN -x ELSE x

\* the threshold test with >= in the place of >
moved_beyond_inclusive(pos, press_pos) ==
    abs(pos[1] - press_pos[1]) + abs(pos[2] - press_pos[2]) >= ClickThreshold

\* d = ev.position() - self._press_pos;  abs(d.x()) + abs(d.y()) > 4.0
moved_beyond(pos, press_pos) ==
    abs(pos[1] - press_pos[1]) + abs(pos[2] - press_pos[2]) > ClickThreshold

\* what vtkPropPicker can answer: it raises, it finds nothing, or it finds an
\* actor of the renderer that is visible
NoPick == [ fail |-> FALSE, actor |-> NoActor ]

Picks(s) ==
    { [ fail |-> TRUE, actor |-> NoActor ] }
    \cup { [ fail |-> FALSE, actor |-> a ] :
             a \in {NoActor} \cup { b \in DOMAIN s.vtk : s.vtk[b].InRenderer /\ s.vtk[b].Visibility = 1 } }

_pick_actor(s, pick, source) ==
    IF pick.fail
    THEN [ scene |-> s, actor |-> NoActor, changed |-> FALSE,
           status |-> << << "pick failed" >> >> ]
    ELSE IF pick.actor = NoActor
    THEN [ scene |-> select_actor(s, NoActor), actor |-> NoActor, changed |-> TRUE,
           status |-> << << "selection cleared" >> >> ]
    ELSE [ scene |-> select_actor(s, pick.actor), actor |-> pick.actor, changed |-> TRUE,
           status |-> << << "object selected (" \o source \o ")" >> >> ]

\* the answer of a file dialog and whether load_texture then succeeds
TexturePaths == {"wood.png"}
NoDialog == [ path |-> "", ok |-> TRUE ]
Dialogs == { NoDialog } \cup [ path : TexturePaths, ok : BOOLEAN ]

\* load_texture(file_path) (texture_utils.py): a cached texture is returned as it
\* is; otherwise the image reader succeeds (ok) or raises
load_texture(cache, file_path, ok) ==
    IF file_path \in cache
    THEN [ ok |-> TRUE, cache |-> cache ]
    ELSE IF ok
    THEN [ ok |-> TRUE, cache |-> cache \cup {file_path} ]
    ELSE [ ok |-> FALSE, cache |-> cache ]

_assign_texture_dialog(s, cache, dlg) ==
    LET a == selected_actor(s)
        tex == load_texture(cache, dlg.path, dlg.ok)
    IN  IF a = NoActor
        THEN [ scene |-> s, cache |-> cache, status |-> << << "no selection" >> >>,
               dialogs |-> << >> ]
        ELSE IF dlg.path = ""
        THEN [ scene |-> s, cache |-> cache, status |-> << >>, dialogs |-> << >> ]
        ELSE IF tex.ok
        THEN [ scene |-> [ s EXCEPT !.vtk[a].Texture = dlg.path ], cache |-> tex.cache,
               status |-> << << "texture assigned" >> >>, dialogs |-> << >> ]
        ELSE [ scene |-> s, cache |-> tex.cache,
               status |-> << << "texture assign failed" >> >>,
               dialogs |-> << << "texture error", "failed to assign texture" >> >> ]

\* the context menu with 'hide' and 'assign' enabled whenever something is selected
menu_enabled_by_selection(s, actor_obj) ==
    [ NoMenu EXCEPT !.shown = TRUE,
                    !.hide = (selected_actor(s) # NoActor),
                    !.reveal = (hidden_count(s) > 0),
                    !.assign = (selected_actor(s) # NoActor) ]

\* the entries of the context menu that are enabled for actor_obj
menu_enabled(s, actor_obj) ==
    [ NoMenu EXCEPT !.shown = TRUE,
                    !.hide = (actor_obj # NoActor),
                    !.reveal = (hidden_count(s) > 0),
                    !.assign = (actor_obj # NoActor) ]

MenuChoices(menu) ==
    {"none"} \cup (IF menu.hide THEN {"hide"} ELSE {})
             \cup (IF menu.reveal THEN {"reveal"} ELSE {})
             \cup (IF menu.assign THEN {"assign"} ELSE {})

\* _show_context_menu(actor_obj, global_pos); chosen is what menu.exec returns
_show_context_menu(s, cache, actor_obj, chosen, dlg) ==
    LET menu == [ menu_enabled(s, actor_obj) EXCEPT !.chosen = chosen ]
        base == [ scene |-> s, cache |-> cache, status |-> << >>, dialogs |-> << >>,
                  menu |-> menu,
                  calls |-> << "menu.exec" >>, ret_bool |-> FALSE, ret_int |-> 0 ]
    IN  CASE chosen = "hide" ->
               LET h == hide_selected(s)
               IN  [ base EXCEPT !.scene = h.scene, !.ret_bool = h.ret,
                                 !.calls = << "menu.exec", "hide_selected" >>,
                                 !.status = IF h.ret THEN << << "object hidden" >> >>
                                            ELSE << << "no selection" >> >> ]
          [] chosen = "reveal" ->
               LET r == reveal_all_hidden(s)
               IN  [ base EXCEPT !.scene = r.scene, !.ret_int = r.ret,
                                 !.calls = << "menu.exec", "reveal_all_hidden" >>,
                                 !.status = << << "revealed ", ToString(r.ret), " object(s)" >> >> ]
          [] chosen = "assign" ->
               LET t == _assign_texture_dialog(s, cache, dlg)
               IN  [ base EXCEPT !.scene = t.scene, !.cache = t.cache, !.status = t.status,
                                 !.dialogs = t.dialogs,
                                 !.calls = << "menu.exec", "_assign_texture_dialog" >> ]
          [] OTHER -> base

mousePressEvent(button, pos) ==
    /\ IF button \in {"Left", "Right"}
       THEN /\ _press_button' = button
            /\ _press_pos' = pos
            /\ _press_moved' = FALSE
       ELSE UNCHANGED pressVars
    /\ last' = [ Did("mousePressEvent") EXCEPT
                   !.button = button,
                   !.forwarded = IF button = "Right" THEN << >> ELSE << "mousePressEvent" >> ]
    /\ UNCHANGED << impVars, winVars, sceneVars, _clear_on_load, editorVars >>

mouseMoveEvent(pos) ==
    /\ _press_moved' = IF _press_pos # NoPos /\ ~_press_moved
                       THEN moved_beyond(pos, _press_pos)
                       ELSE _press_moved
    /\ last' = [ Did("mouseMoveEvent") EXCEPT
                   !.forwarded = IF _press_button = "Right" THEN << >> ELSE << "mouseMoveEvent" >> ]
    /\ UNCHANGED << impVars, winVars, sceneVars, _clear_on_load, _press_button, _press_pos, editorVars >>

\* mouseReleaseEvent without its first 'if ev.button() == LeftButton' block
forward_no_release(button) == << >>

\* 'always forward left button release to vtk': what the first block of
\* mouseReleaseEvent forwards
forward_left_release(button) ==
    IF button = "Left" THEN << "mouseReleaseEvent" >> ELSE << >>

\* pick is the picker's answer, chosen the context-menu entry taken, dlg the file
\* dialog's answer; each is read only on the path that asks for it
mouseReleaseEvent(button, pick, chosen, dlg) ==
    LET is_click == (_press_button = button /\ _press_pos # NoPos /\ ~_press_moved)
        left == forward_left_release(button)
    IN  /\ IF is_click /\ button = "Left"
           THEN LET p == _pick_actor(Scene, pick, "left click")
                IN  /\ chosen = "none" /\ dlg = NoDialog
                    /\ SetScene(p.scene)
                    /\ _texture_cache' = _texture_cache
                    /\ _status' = IF p.changed THEN _on_selection_changed(p.scene) ELSE _status
                    /\ last' = [ Did("mouseReleaseEvent") EXCEPT
                                   !.button = button, !.forwarded = left,
                                   !.calls = << "_pick_actor" >>,
                                   !.picked = p.actor, !.status = p.status ]
           ELSE IF is_click /\ button = "Right"
           THEN LET p == _pick_actor(Scene, pick, "right click")
                    m == _show_context_menu(p.scene, _texture_cache, p.actor, chosen, dlg)
                IN  /\ chosen \in MenuChoices(m.menu)
                    /\ (chosen # "assign" => dlg = NoDialog)
                    /\ SetScene(m.scene)
                    /\ _texture_cache' = m.cache
                    /\ _status' = IF p.changed THEN _on_selection_changed(p.scene) ELSE _status
                    /\ last' = [ Did("mouseReleaseEvent") EXCEPT
                                   !.button = button, !.forwarded = left,
                                   !.calls = << "_pick_actor" >> \o m.calls,
                                   !.picked = p.actor, !.menu = m.menu,
                                   !.status = p.status \o m.status,
                                   !.dialogs = m.dialogs,
                                   !.ret_bool = m.ret_bool, !.ret_int = m.ret_int ]
           ELSE /\ pick = NoPick /\ chosen = "none" /\ dlg = NoDialog
                /\ UNCHANGED << _actors, _selected, _hidden, vtk, _status, _texture_cache >>
                /\ last' = [ Did("mouseReleaseEvent") EXCEPT
                               !.button = button,
                               !.forwarded = left \o << "mouseReleaseEvent" >> ]
        /\ _press_button' = NoButton
        /\ _press_pos' = NoPos
        /\ _press_moved' = FALSE
        /\ UNCHANGED << impVars, winVars, next_id, _clear_on_load, _texture_editor, _params >>

-----------------------------------------------------------------------------
(* TextureEditorDialog (texture_editor.py) and                             *)
(* MainWindow._open_texture_editor (main_window.py).  PrincipledParams is  *)
(* kept as a colour, one slider (metallic stands for the slider group) and *)
(* the texture path.                                                       *)

DefaultParams == [ base_color |-> "grey", metallic |-> 0, texture_path |-> "" ]
Colors == {"grey", "red"}
SliderValues == {0, 1}

\* _apply falling back to the first actor of the scene when nothing is selected
_apply_first_actor(s, cache, params, ok) ==
    LET a == IF selected_actor(s) = NoActor /\ Len(s.actors) > 0
             THEN s.actors[1]
             ELSE selected_actor(s)
        s1 == [ s EXCEPT !.vtk[a].Material =
                             [ base_color |-> params.base_color, metallic |-> params.metallic ] ]
        tex == load_texture(cache, params.texture_path, ok)
    IN  IF a = NoActor
        THEN [ scene |-> s, cache |-> cache, status |-> StatusNoSelection ]
        ELSE IF params.texture_path # ""
        THEN IF tex.ok
             THEN [ scene |-> [ s1 EXCEPT !.vtk[a].Texture = params.texture_path ],
                    cache |-> tex.cache, status |-> refresh_from_selection(s1) ]
             ELSE [ scene |-> s1, cache |-> tex.cache,
                    status |-> << "Material apply failed: ", "image reader could not be created" >> ]
        ELSE [ scene |-> [ s1 EXCEPT !.vtk[a].Texture = "" ], cache |-> cache,
               status |-> refresh_from_selection(s1) ]

\* _apply(): returns the scene, the texture cache and the status label
_apply(s, cache, params, ok) ==
    LET a == selected_actor(s)
        s1 == [ s EXCEPT !.vtk[a].Material =
                             [ base_color |-> params.base_color, metallic |-> params.metallic ] ]
        tex == load_texture(cache, params.texture_path, ok)
    IN  IF a = NoActor
        THEN [ scene |-> s, cache |-> cache, status |-> StatusNoSelection ]
        ELSE IF params.texture_path # ""
        THEN IF tex.ok
             THEN [ scene |-> [ s1 EXCEPT !.vtk[a].Texture = params.texture_path ],
                    cache |-> tex.cache, status |-> refresh_from_selection(s1) ]
             ELSE [ scene |-> s1, cache |-> tex.cache,
                    status |-> << "Material apply failed: ", "image reader could not be created" >> ]
        ELSE [ scene |-> [ s1 EXCEPT !.vtk[a].Texture = "" ], cache |-> cache,
               status |-> refresh_from_selection(s1) ]

\* an edit: the handler stores the new parameters and calls _apply
Edit(handler, params, ok) ==
    LET r == _apply(Scene, _texture_cache, params, ok)
    IN  /\ _texture_editor
        /\ _params' = params
        /\ SetScene(r.scene)
        /\ _texture_cache' = r.cache
        /\ _status' = r.status
        /\ last' = [ Did(handler) EXCEPT !.calls = << "_apply" >> ]
        /\ UNCHANGED << impVars, winVars, next_id, _clear_on_load, mouseVars, _texture_editor >>

_pick_texture(dlg) ==
    IF dlg.path = ""
    THEN /\ _texture_editor
         /\ last' = Did("_pick_texture")
         /\ UNCHANGED << impVars, winVars, sceneVars, _clear_on_load, mouseVars, editorVars >>
    ELSE Edit("_pick_texture", [ _params EXCEPT !.texture_path = dlg.path ], dlg.ok)

_clear_texture == Edit("_clear_texture", [ _params EXCEPT !.texture_path = "" ], TRUE)

\* picked is the colour chosen, or "invalid" when the colour dialog is cancelled
_pick_base_color(picked) ==
    IF picked = "invalid"
    THEN /\ _texture_editor
         /\ last' = Did("_pick_base_color")
         /\ UNCHANGED << impVars, winVars, sceneVars, _clear_on_load, mouseVars, editorVars >>
    ELSE Edit("_pick_base_color", [ _params EXCEPT !.base_color = picked ], TRUE)

\* a slider, spin box or check box changed; ok is load_texture's outcome
_on_any_change(value, ok) ==
    Edit("_on_any_change", [ _params EXCEPT !.metallic = value ], ok)

_open_texture_editor ==
    /\ _texture_editor' = TRUE
    /\ _params' = IF _texture_editor THEN _params ELSE DefaultParams
    /\ _status' = refresh_from_selection(Scene)
    /\ last' = Did("_open_texture_editor")
    /\ UNCHANGED << impVars, winVars, sceneVars, _clear_on_load, mouseVars, _texture_cache >>

-----------------------------------------------------------------------------
(* AppSettings (settings.py) over QSettings, and MainWindow.closeEvent,    *)
(* _restore_settings and _toggle_three_point (main_window.py).  QSettings  *)
(* keeps a value as text; value(key, default, type=bool) reads it back.    *)

NoSettings == [ clear_on_load |-> "unset", three_point_lighting |-> "unset" ]

\* QSettings.setValue(key, enabled) for a bool
setValue(enabled) == IF enabled THEN "true" ELSE "false"

\* bool(s.value(key, default)) without type=bool: any stored text is truthy
qsettings_value_untyped(stored, default) ==
    IF stored = "unset" THEN default ELSE stored # ""

\* bool(s.value(key, default, type=bool))
qsettings_value(stored, default) ==
    IF stored = "unset" THEN default ELSE stored = "true"

AppSettings_get_clear_on_load(store) == qsettings_value(store.clear_on_load, TRUE)

AppSettings_set_clear_on_load(store, enabled) ==
    [ store EXCEPT !.clear_on_load = setValue(enabled) ]

AppSettings_get_three_point_lighting(store) ==
    qsettings_value(store.three_point_lighting, FALSE)

AppSettings_set_three_point_lighting(store, enabled) ==
    [ store EXCEPT !.three_point_lighting = setValue(enabled) ]

\* SceneManager.enable_three_point_lighting: the new _three_point_enabled
enable_three_point_lighting(current, enabled) ==
    IF enabled = current THEN current ELSE enabled

\* the 'Enable 3 Point Lighting' action is toggled by the user
_toggle_three_point ==
    LET enabled == ~_act_three_point
    IN  /\ window = "open"
        /\ _act_three_point' = enabled
        /\ _three_point_enabled' = enable_three_point_lighting(_three_point_enabled, enabled)
        /\ last' = Did("_toggle_three_point")
        /\ UNCHANGED << impVars, sceneVars, _clear_on_load, mouseVars, editorVars,
                        _act_clear_on_load, closeVars >>

\* which of closeEvent's two set calls raises
SetFailures == {"none", "set_clear_on_load", "set_three_point_lighting"}

\* closeEvent(event); the first set call that raises ends the try block
closeEvent(fail) ==
    LET first == AppSettings_set_clear_on_load(settings, _clear_on_load)
        second == AppSettings_set_three_point_lighting(first, _act_three_point)
    IN  /\ window = "open"
        /\ settings' = CASE fail = "set_clear_on_load" -> settings
                          [] fail = "set_three_point_lighting" -> first
                          [] OTHER -> second
        /\ log' = IF fail = "none" THEN << >> ELSE << "failed to persist settings" >>
        /\ window' = "closed"
        /\ last' = Did("closeEvent")
        /\ UNCHANGED << impVars, sceneVars, _clear_on_load, mouseVars, editorVars,
                        _act_clear_on_load, lightVars >>

NoClose == [ closed |-> FALSE, persisted |-> FALSE, clear_on_load |-> FALSE,
             three_point |-> FALSE ]

\* the application is started again: MainWindow.__init__ builds a new viewport,
\* scene and actions and ends in _restore_settings
_restore_settings ==
    LET clear_on_load == AppSettings_get_clear_on_load(settings)
        three_point == AppSettings_get_three_point_lighting(settings)
    IN  /\ window = "closed"
        /\ window' = "open"
        /\ _act_clear_on_load' = clear_on_load
        /\ _clear_on_load' = clear_on_load
        /\ _act_three_point' = three_point
        /\ _three_point_enabled' = enable_three_point_lighting(FALSE, three_point)
        /\ _actors' = << >> /\ _selected' = NoSelection /\ _hidden' = {}
        /\ vtk' = [ a \in ActorIds |-> NewActor(0) ]
        /\ next_id' = 1
        /\ held' = {} /\ hist' = [ button |-> NoButton, pos |-> NoPos, far |-> FALSE,
                                    released |-> FALSE ]
        /\ _press_button' = NoButton /\ _press_pos' = NoPos /\ _press_moved' = FALSE
        /\ _texture_editor' = FALSE /\ _params' = DefaultParams
        /\ _status' = StatusInitial /\ _texture_cache' = {}
        /\ log' = << >>
        /\ last' = Did("_restore_settings")
        /\ UNCHANGED << impVars, settings, at_close >>

-----------------------------------------------------------------------------
(* Initial states.                                                         *)

NoHist == [ button |-> NoButton, pos |-> NoPos, far |-> FALSE, released |-> FALSE ]

\* VTKViewport.__init__, SceneManager.__init__, MainWindow.__init__
InitViewport ==
    /\ _actors = << >>
    /\ _selected = NoSelection
    /\ _hidden = {}
    /\ vtk = [ a \in ActorIds |-> NewActor(0) ]
    /\ next_id = 1
    /\ _clear_on_load = TRUE
    /\ held = {}
    /\ hist = NoHist
    /\ _press_button = NoButton
    /\ _press_pos = NoPos
    /\ _press_moved = FALSE
    /\ last = NoLast
    /\ _texture_editor = FALSE
    /\ _params = DefaultParams
    /\ _status = StatusInitial
    /\ _texture_cache = {}

\* MainWindow.__init__ on a first start: nothing is stored, _restore_settings
\* reads the defaults
InitWindow ==
    /\ settings = NoSettings
    /\ _act_clear_on_load = AppSettings_get_clear_on_load(NoSettings)
    /\ _act_three_point = AppSettings_get_three_point_lighting(NoSettings)
    /\ _three_point_enabled = AppSettings_get_three_point_lighting(NoSettings)
    /\ window = "open"
    /\ log = << >>
    /\ at_close = NoClose

Init ==
    /\ imp_pc = "idle"
    /\ imp_file = << >>
    /\ imp_env = DefaultEnv
    /\ imp_result = NoResult
    /\ InitViewport
    /\ InitWindow

\* one call of load_model_into_renderer on a file and outcomes drawn from the inputs
InitImport ==
    /\ imp_pc = "call"
    /\ imp_file \in Files
    /\ imp_env \in EnvsFor(imp_file)
    /\ imp_result = NoResult
    /\ InitViewport
    /\ InitWindow

-----------------------------------------------------------------------------
(* The steps: each handler on the inputs its environment can hand it.      *)

CallLoadModel ==
    /\ imp_pc = "call"
    /\ imp_pc' = "done"
    /\ imp_result' = load_model_into_renderer(imp_file, imp_env)
    /\ UNCHANGED << imp_file, imp_env, winVars, sceneVars, _clear_on_load, mouseVars, last,
                    editorVars >>

\* the loads the viewport is offered: a file and what its loaders do
GuiLoads == { << f, e >> : f \in GuiFiles, e \in Envs } \cap { << f, e >> \in GuiFiles \X Envs : e \in EnvsFor(f) }

\* the readers and fallback loaders of this repository build their actors with
\* vtk's default property (edges off)
LoadFile(L) ==
    \E load \in L : load_file(load[1], load[2], 0)

\* the loads beside the material editor: a collada file of one or two nodes that
\* the native importer reads
EditorLoads ==
    { << << "a", "/", "m", ".", "D", "a", "e" >>,
         [ DefaultEnv EXCEPT !.native = "actors", !.n = n ] >> : n \in {1, 2} }

\* the 'Clear previous on load' action is set to enabled; its toggled signal is
\* connected to the viewport's set_clear_on_load
SetClearOnLoad ==
    \E enabled \in BOOLEAN :
        /\ _act_clear_on_load' = enabled
        /\ set_clear_on_load(enabled)

ClearViewport == clear_viewport

RemoveSelected == remove_selected

Manhattan(p, q) == abs(p[1] - q[1]) + abs(p[2] - q[2])

MousePress(B, P) ==
    \E button \in B \ held : \E pos \in P :
        /\ mousePressEvent(button, pos)
        /\ held' = held \cup {button}
        /\ hist' = IF button \in {"Left", "Right"}
                   THEN [ button |-> button, pos |-> pos, far |-> FALSE, released |-> FALSE ]
                   ELSE hist

MouseMove(P) ==
    \E pos \in P :
        /\ mouseMoveEvent(pos)
        /\ held' = held
        /\ hist' = IF hist.button # NoButton /\ Manhattan(pos, hist.pos) > 4
                   THEN [ hist EXCEPT !.far = TRUE ]
                   ELSE hist

MouseRelease(D) ==
    \E button \in held : \E pick \in Picks(Scene) :
    \E chosen \in {"none", "hide", "reveal", "assign"} : \E dlg \in D :
        /\ mouseReleaseEvent(button, pick, chosen, dlg)
        /\ held' = held \ {button}
        /\ hist' = IF hist.button # NoButton THEN [ hist EXCEPT !.released = TRUE ] ELSE hist

\* where the viewport is clicked when the position does not matter
ClickPoints == { << 0, 0 >> }

\* the viewport as the main window drives it
Next ==
    \/ LoadFile(GuiLoads)
    \/ SetClearOnLoad
    \/ ClearViewport
    \/ RemoveSelected
    \/ MousePress({"Left", "Right"}, ClickPoints)
    \/ MouseRelease({NoDialog})

\* the mouse handlers alone, on every button and every position
NextMouse ==
    \/ MousePress(Buttons, Positions)
    \/ MouseMove(Positions)
    \/ MouseRelease({NoDialog})

SpecMouse == Init /\ [][NextMouse]_vars

\* a button that is down is released in the end: Qt delivers the release of every
\* press it delivered
LeftRelease == MouseRelease({NoDialog}) /\ last'.button = "Left"

SpecMouseLive == SpecMouse /\ WF_vars(LeftRelease)

Spec == Init /\ [][Next]_vars

SpecImport == InitImport /\ [][CallLoadModel]_vars

ToggleClearOnLoad == window = "open" /\ SetClearOnLoad

ToggleThreePoint == _toggle_three_point

CloseEvent ==
    \E fail \in SetFailures :
        /\ closeEvent(fail)
        /\ at_close' = [ closed |-> TRUE, persisted |-> (fail = "none"),
                         clear_on_load |-> _clear_on_load,
                         three_point |-> _three_point_enabled ]

Restart == _restore_settings

\* the window's flags over closes and restarts of the application
NextSettings ==
    \/ ToggleClearOnLoad
    \/ ToggleThreePoint
    \/ CloseEvent
    \/ Restart

SpecSettings == Init /\ [][NextSettings]_vars

OpenTextureEditor == _open_texture_editor

PickTexture == \E dlg \in Dialogs : _pick_texture(dlg)

ClearTexture == _clear_texture

PickBaseColor == \E picked \in Colors \cup {"invalid"} : _pick_base_color(picked)

OnAnyChange == \E value \in SliderValues : \E ok \in BOOLEAN : _on_any_change(value, ok)

\* the viewport with the material editor open beside it
NextEditor ==
    \/ LoadFile(EditorLoads)
    \/ MousePress({"Left"}, ClickPoints)
    \/ MouseRelease({NoDialog})
    \/ OpenTextureEditor
    \/ PickTexture
    \/ ClearTexture
    \/ PickBaseColor
    \/ OnAnyChange

SpecEditor == Init /\ [][NextEditor]_vars

\* SceneManager's methods called directly, on actors of the scene
ActorSet == { _actors[i] : i \in 1..Len(_actors) }

SceneAddActors ==
    \E n \in 1..MaxNew : \E edge \in {0, 1} :
        LET new == [ i \in 1..n |-> next_id + i - 1 ]
            created == [ Scene EXCEPT !.vtk = [ a \in DOMAIN vtk |->
                                                  IF a >= next_id /\ a < next_id + n
                                                  THEN NewActor(edge)
                                                  ELSE vtk[a] ] ]
        IN  /\ next_id + n - 1 <= MaxActorId
            /\ SetScene(add_actors(created, new))
            /\ next_id' = next_id + n
            /\ last' = [ Did("add_actors") EXCEPT !.loaded = new ]
            /\ UNCHANGED << impVars, winVars, _clear_on_load, mouseVars, editorVars >>

SceneSelectActor ==
    \E actor \in ActorSet \cup {NoActor} :
        /\ SetScene(select_actor(Scene, actor))
        /\ last' = [ Did("select_actor") EXCEPT !.picked = actor ]
        /\ UNCHANGED << impVars, winVars, next_id, _clear_on_load, mouseVars, editorVars >>

SceneRemoveActor ==
    \E actor \in ActorSet :
        /\ SetScene(unreferenced(remove_actor(Scene, actor)))
        /\ last' = [ Did("remove_actor") EXCEPT !.picked = actor ]
        /\ UNCHANGED << impVars, winVars, next_id, _clear_on_load, mouseVars, editorVars >>

SceneClearAll ==
    /\ SetScene(unreferenced(clear_all(Scene)))
    /\ last' = Did("clear_all")
    /\ UNCHANGED << impVars, winVars, next_id, _clear_on_load, mouseVars, editorVars >>

SceneHideSelected ==
    LET h == hide_selected(Scene)
    IN  /\ SetScene(h.scene)
        /\ last' = [ Did("hide_selected") EXCEPT !.ret_bool = h.ret ]
        /\ UNCHANGED << impVars, winVars, next_id, _clear_on_load, mouseVars, editorVars >>

SceneRevealAllHidden ==
    LET r == reveal_all_hidden(Scene)
    IN  /\ SetScene(r.scene)
        /\ last' = [ Did("reveal_all_hidden") EXCEPT !.ret_int = r.ret ]
        /\ UNCHANGED << impVars, winVars, next_id, _clear_on_load, mouseVars, editorVars >>

NextScene ==
    \/ SceneAddActors
    \/ SceneSelectActor
    \/ SceneRemoveActor
    \/ SceneClearAll
    \/ SceneHideSelected
    \/ SceneRevealAllHidden

SpecScene == Init /\ [][NextScene]_vars

-----------------------------------------------------------------------------
(* Properties of load_model_into_renderer and _import_scene, under         *)
(* SpecImport.                                                             *)

ImportDone == imp_pc = "done"
SceneImport == imp_result.loader \in { "_import_scene:gltf", "_import_scene:collada", "_import_scene:fbx" }
Attempts == imp_result.attempts
StageRank(stage) == CASE stage = "native" -> 1 [] stage = "alt" -> 2 [] stage = "generic" -> 3 [] OTHER -> 0
Attempted(stage) == \E i \in 1..Len(Attempts) : Attempts[i][1] = stage
EndsWithoutActors == imp_result.kind = "raise" \/ imp_result.actors = 0

\* the fallback loader of a format's chain
FallbackOf(loader) ==
    CASE loader = "_import_scene:collada" -> "load_dae_pycollada"
      [] loader = "_import_scene:fbx" -> "load_fbx_assimp_py"
      [] OTHER -> "pyassimp"

\* C2: in one call of _import_scene the stages are attempted in the fixed order
\* native importer, format fallback (pycollada for dae, assimp-py for fbx), generic
\* pyassimp: the native importer comes first, the stages of the attempts strictly
\* ascend (so none is attempted twice and none before an earlier one), and the
\* format fallback is attempted only when the native importer was unavailable or
\* produced no new actors.
C2_FixedOrder ==
    (ImportDone /\ SceneImport) =>
        /\ Len(Attempts) >= 1 /\ Attempts[1][1] = "native"
        /\ \A i, j \in 1..Len(Attempts) :
               i < j => StageRank(Attempts[i][1]) < StageRank(Attempts[j][1])
        /\ \A i \in 1..Len(Attempts) :
               /\ Attempts[i][1] = "alt" =>
                      /\ imp_env.native \in {"unavailable", "none"}
                      /\ Attempts[i][2] = FallbackOf(imp_result.loader)
                      /\ imp_result.loader # "_import_scene:gltf"
               /\ Attempts[i][1] = "generic" =>
                      /\ imp_env.native = "unavailable"
                      /\ Attempts[i][2] = "pyassimp"

\* C2 witness: a dae import whose native importer found no actors went on to pycollada
C2_Witness ==
    /\ ImportDone
    /\ imp_result.loader = "_import_scene:collada"
    /\ imp_env.native = "none"
    /\ Len(Attempts) = 2
    /\ Attempts[2][1] = "alt"

\* C3 as claimed: a scene import ends without actors only after all three stages
\* were attempted or found unavailable; for dae and fbx with the native importer
\* unavailable and the fallback failing, pyassimp is still attempted.
C3_Original ==
    (ImportDone /\ SceneImport /\ EndsWithoutActors) =>
        /\ Attempted("native")
        /\ (imp_result.loader # "_import_scene:gltf" => Attempted("alt"))
        /\ Attempted("generic")

\* C3 amended: a scene import ends without actors only after the native importer
\* was attempted or found unavailable and, when it was unavailable (for dae also
\* when it produced no new actors), after the format's one fallback (pycollada
\* for dae, assimp-py for fbx, pyassimp for gltf/glb) was attempted or found
\* unavailable; pyassimp is never attempted for dae or fbx, whose load raises
\* RuntimeError right after their own fallback failed.
C3_FormatChain ==
    (ImportDone /\ SceneImport /\ EndsWithoutActors) =>
        /\ Attempts[1][1] = "native"
        /\ ( \/ imp_env.native = "unavailable"
             \/ (imp_result.loader = "_import_scene:collada" /\ imp_env.native = "none") ) =>
               /\ Len(Attempts) = 2
               /\ Attempts[2][2] = FallbackOf(imp_result.loader)
        /\ imp_result.loader # "_import_scene:gltf" =>
               /\ ~Attempted("generic")
               /\ (imp_env.native = "unavailable" /\ imp_env.alt = "raise") =>
                      /\ imp_result.kind = "raise"
                      /\ imp_result.exc = "RuntimeError"

\* C3 witness: a dae load fails with the native importer unavailable and
\* pycollada raising
C3_Witness ==
    /\ ImportDone
    /\ imp_result.loader = "_import_scene:collada"
    /\ imp_env.native = "unavailable"
    /\ imp_env.alt = "raise"
    /\ imp_result.kind = "raise"

\* a spelling of x, upper or lower case letter by letter
EqIgnoreCase(a, b) ==
    /\ Len(a) = Len(b)
    /\ \A i \in 1..Len(a) : a[i] = b[i] \/ upper_char(a[i]) = b[i] \/ a[i] = upper_char(b[i])

\* the file's last component ends in a dot (not its first character) and a
\* spelling of x
HasExt(p, x) ==
    LET n == Len(p)
        k == Len(x)
    IN  /\ n >= k + 2
        /\ p[n - k] = "."
        /\ p[n - k - 1] # "/"
        /\ EqIgnoreCase(SubSeq(p, n - k + 1, n), x)

ExpectedLoader(x) ==
    CASE x = << "s", "t", "l" >> -> "vtkSTLReader"
      [] x = << "o", "b", "j" >> -> "vtkOBJReader"
      [] x = << "p", "l", "y" >> -> "vtkPLYReader"
      [] x = << "v", "t", "p" >> -> "vtkXMLPolyDataReader"
      [] x \in { << "s", "t", "p" >>, << "s", "t", "e", "p" >> } -> "load_step_ocp"
      [] x \in { << "g", "l", "t", "f" >>, << "g", "l", "b" >> } -> "_import_scene:gltf"
      [] x = << "d", "a", "e" >> -> "_import_scene:collada"
      [] x = << "f", "b", "x" >> -> "_import_scene:fbx"

\* C4: the loader is chosen by the extension compared case-insensitively: each of
\* stl, obj, ply, vtp, stp, step, gltf, glb, dae, fbx goes to its one loader, whose
\* reader or importer is the first (for the readers the only) thing called; any
\* other extension, and no extension, raises ValueError 'unsupported file
\* extension' with no reader or importer called and the render window untouched.
C4_Dispatch ==
    ImportDone =>
        /\ \A x \in SupportedExts :
               HasExt(imp_file, x) =>
                   /\ imp_result.loader = ExpectedLoader(x)
                   /\ imp_result.exc # "ValueError"
                   /\ Len(Attempts) >= 1
                   /\ (~SceneImport => Attempts = << << "reader", ExpectedLoader(x), imp_env.reader >> >>)
        /\ (~ \E x \in SupportedExts : HasExt(imp_file, x)) =>
               /\ imp_result.kind = "raise"
               /\ imp_result.exc = "ValueError"
               /\ imp_result.error = "unsupported file extension"
               /\ imp_result.loader = ""
               /\ Attempts = << >>
               /\ ~imp_result.rw_touched

\* C4 witness: a step file spelled in mixed case reached the STEP loader
C4_Witness ==
    /\ ImportDone
    /\ imp_file = << "m", ".", "S", "t", "E", "p" >>
    /\ imp_result.loader = "load_step_ocp"
    /\ imp_result.kind = "return"

-----------------------------------------------------------------------------
(* Properties of SceneManager.hide_selected and reveal_all_hidden, under   *)
(* SpecScene.                                                              *)

\* every field of every actor but the named ones of actor a is as before
SameActorsExcept(a, fields) ==
    \A b \in ActorIds :
        \A f \in DOMAIN vtk[b] : (b # a \/ f \notin fields) => vtk'[b][f] = vtk[b][f]

\* C8: a call of hide_selected with a selection makes the selected actor invisible,
\* adds it to the hidden set (the count grows by one unless it was hidden already),
\* clears the selection, puts the actor's edge properties back to what they were
\* before it was selected, and returns True; with no selection it returns False and
\* leaves the hidden set, the actor list and every actor as they were.
C8_HideSelected ==
    [][ last'.handler = "hide_selected" =>
          IF _selected.actor # NoActor
          THEN LET a == _selected.actor
               IN  /\ last'.ret_bool = TRUE
                   /\ vtk'[a].Visibility = 0
                   /\ _hidden' = _hidden \cup {a}
                   /\ Cardinality(_hidden') = Cardinality(_hidden) + (IF a \in _hidden THEN 0 ELSE 1)
                   /\ _selected' = NoSelection
                   /\ vtk'[a].EdgeVisibility = _selected.original_edge_visibility
                   /\ vtk'[a].EdgeColor = "black"
                   /\ vtk'[a].LineWidth = 1
                   /\ _actors' = _actors
                   /\ SameActorsExcept(a, {"Visibility", "EdgeVisibility", "EdgeColor", "LineWidth"})
          ELSE /\ last'.ret_bool = FALSE
               /\ _hidden' = _hidden
               /\ _actors' = _actors
               /\ _selected' = _selected
               /\ vtk' = vtk
      ]_vars

\* C8 witness: hide_selected returned True with two actors hidden and none selected
C8_Witness ==
    /\ last.handler = "hide_selected"
    /\ last.ret_bool
    /\ Cardinality(_hidden) = 2
    /\ _selected = NoSelection
    /\ \A a \in _hidden : vtk[a].Visibility = 0

-----------------------------------------------------------------------------
(* Properties of VTKViewport.load_file, under Spec.                        *)

Emitted(l, text) == \E i \in 1..Len(l.status) : l.status[i][1] = text

\* C1: no exception escapes load_file; whenever the load raised (unsupported
\* extension, reader or importer failure, fallback failure) exactly one dialog
\* 'load error' carrying the error text was shown, 'load failed' was emitted and
\* 'loaded: <name>' was not emitted for that call.
C1_LoadErrorsCaught ==
    last.handler = "load_file" =>
        /\ ~last.escaped
        /\ last.error # "" =>
              /\ last.dialogs = << << "load error", last.error >> >>
              /\ Emitted(last, "load failed")
              /\ ~Emitted(last, "loaded: ")

\* C1 witness: a load of a file with an unsupported extension ended in the dialog
C1_Witness ==
    /\ last.handler = "load_file"
    /\ last.error = "unsupported file extension"
    /\ last.dialogs # << >>
    /\ Emitted(last, "load failed")

LoadSucceeded(l) == l.handler = "load_file" /\ l.error = "" /\ ~l.escaped

\* the actors created by the step, in the order of their creation
Created == [ i \in 1..(next_id' - next_id) |-> next_id + i - 1 ]

\* C5: after a successful load_file with clear-on-load enabled the scene's actors
\* are exactly the actors created for the new file, the hidden set is empty and
\* nothing is selected; with clear-on-load disabled the earlier actors are all
\* there in their order, the new actors appended after them.
C5_ClearOnLoad ==
    [][ LoadSucceeded(last') =>
          IF _clear_on_load
          THEN /\ _actors' = Created
               /\ _hidden' = {}
               /\ _selected' = NoSelection
          ELSE /\ _actors' = _actors \o Created
      ]_vars

\* C5 witness: with clear-on-load enabled a load succeeded after earlier actors
\* had been created, and only its own actors are in the scene
C5_Witness ==
    /\ LoadSucceeded(last)
    /\ _clear_on_load
    /\ Len(last.loaded) >= 1
    /\ last.loaded[1] > 1
    /\ _actors = last.loaded

-----------------------------------------------------------------------------
(* Properties of the mouse handlers.                                       *)

IsRelease(l, buttons) == l.handler = "mouseReleaseEvent" /\ l.button \in buttons

Picked(l) == \E i \in 1..Len(l.calls) : l.calls[i] = "_pick_actor"

\* C6 as stated: a left or right release triggers a pick if and only if it is the
\* button of the most recent left/right press and no move since that press was
\* more than 4 pixels (Manhattan) away from the press position.
C6_Original ==
    [][ IsRelease(last', {"Left", "Right"}) =>
          (Picked(last') <=> (last'.button = hist.button /\ ~hist.far))
      ]_vars

\* C6: a left or right release triggers a pick if and only if it is the button of
\* the most recent left/right press, no button has been released since that press,
\* and no move since that press was more than 4 pixels (Manhattan) away from the
\* press position; a move beyond the threshold keeps the gesture a drag until the
\* release wherever the pointer goes afterwards.
C6_ClickOrDrag ==
    [][ IsRelease(last', {"Left", "Right"}) =>
          (Picked(last') <=> (last'.button = hist.button /\ ~hist.far /\ ~hist.released))
      ]_vars

\* C6 witness: the pressed button was released after a move beyond the threshold
\* and the pointer's return, and no pick was made
C6_Witness ==
    /\ IsRelease(last, {"Left", "Right"})
    /\ last.button = hist.button
    /\ hist.far
    /\ ~Picked(last)
    /\ held = {}

\* a right release that is a click
RightClick == _press_button = "Right" /\ _press_pos # NoPos /\ ~_press_moved

-----------------------------------------------------------------------------
(* Properties of the material editor, under SpecEditor.                    *)

EditHandlers == {"_pick_texture", "_clear_texture", "_pick_base_color", "_on_any_change"}

Applied(l) == l.handler \in EditHandlers /\ l.calls = << "_apply" >>

\* C10: every _apply changes the property and the texture of no actor but the one
\* selected at the moment of the edit, and nothing else of the scene; with no
\* selection the edit changes no actor and the status shows 'No selection'; a
\* change of the selection, and the refresh_from_selection it brings, changes no
\* actor's material or texture.
C10_AppliesToSelection ==
    [][ /\ Applied(last') =>
            /\ \A b \in ActorIds \ {_selected.actor} : vtk'[b] = vtk[b]
            /\ SameActorsExcept(_selected.actor, {"Material", "Texture"})
            /\ _actors' = _actors /\ _selected' = _selected /\ _hidden' = _hidden
            /\ _selected.actor = NoActor => (vtk' = vtk /\ _status' = StatusNoSelection)
        /\ (IsRelease(last', Buttons) \/ last'.handler = "_open_texture_editor") =>
            \A b \in ActorIds : /\ vtk'[b].Material = vtk[b].Material
                                /\ vtk'[b].Texture = vtk[b].Texture
      ]_vars

\* C10 witness: an edit was applied with one of two actors selected; that one has
\* the edited material and the texture, the other still the loader's
C10_Witness ==
    /\ Applied(last)
    /\ _selected.actor # NoActor
    /\ vtk[_selected.actor].Material = [ base_color |-> "red", metallic |-> 1 ]
    /\ vtk[_selected.actor].Texture # ""
    /\ \E b \in ActorSet \ {_selected.actor} :
           vtk[b].Material = LoaderMaterial /\ vtk[b].Texture = ""

-----------------------------------------------------------------------------
(* Properties of closeEvent and _restore_settings, under SpecSettings.     *)

\* the viewport's and the scene's flags are those of their menu actions
FlagsAgree ==
    /\ _clear_on_load = _act_clear_on_load
    /\ _three_point_enabled = _act_three_point

-----------------------------------------------------------------------------
(* Properties of what the mouse handlers forward to the VTK interactor,    *)
(* under SpecMouse.                                                        *)

\* C12: right-button input is never forwarded to the VTK interactor: not a right
\* press, not a move while the right button is the tracked button, and not a
\* right release, whether the gesture ends as a click or as a drag.
C12_RightNeverForwarded ==
    [][ /\ (last'.handler = "mousePressEvent" /\ last'.button = "Right") =>
              last'.forwarded = << >>
        /\ (last'.handler = "mouseMoveEvent" /\ _press_button = "Right") =>
              last'.forwarded = << >>
        /\ IsRelease(last', {"Right"}) => last'.forwarded = << >>
      ]_vars

\* a left press that was handed to the VTK interactor is still unanswered
LeftPressForwarded ==
    /\ "Left" \in held
    /\ last.handler = "mousePressEvent" /\ last.button = "Left"
    /\ last.forwarded = << "mousePressEvent" >>

LeftReleaseForwarded ==
    /\ IsRelease(last, {"Left"})
    /\ Len(last.forwarded) >= 1
    /\ last.forwarded[1] = "mouseReleaseEvent"

====
